---- MODULE Spec2Model ----
(***************************************************************************)
(* Model of the Commvault Cloud connector (commvaultcloud_connector.py):   *)
(* one invocation is initialize -> handle_action -> finalize, driven by    *)
(* the host, for the actions on_poll, disable_user, disable_data_aging and *)
(* disable_idp; the persisted state (key last_run) is the only value that  *)
(* crosses invocations.  SpecPure applies the helper functions             *)
(* (_process_response, get_backup_anomaly, extract_from_regex) on their    *)
(* own to arguments of small sets.                                         *)
(*                                                                         *)
(* Python values that can be None / str / int are records with a "type"    *)
(* field, so that None, "" and integers stay distinct and comparable.      *)
(* A free-text alert message is abstracted to the tokens the regular       *)
(* expressions of get_incident_details look for (NoMatch when the pattern  *)
(* does not match).  Wall-clock values are epoch seconds.                   *)
(***************************************************************************)
EXTENDS Integers, Sequences, FiniteSets, TLC

VARIABLES
    persisted,          \* host-side saved state: value of key "last_run"
    clock,              \* UTC epoch seconds, as read by datetime.utcnow()
    tz,                 \* UTC offset of the machine's local time zone
    feed,               \* commservEvents lists the backup platform may return
    pc,                 \* position of the current invocation
    param,              \* param["container_count"] of this invocation
    state,              \* self._state["last_run"]
    last_run_epoch,     \* self._last_run_epoch
    current_run_epoch,  \* self._current_run_epoch
    max_fetch,          \* self._max_fetch
    queries,            \* events queries issued by this invocation, in order
    critical_events,    \* get_events_list: critical_events
    major_events,       \* get_events_list: major_events
    combined,           \* get_events_list: events (before sorting)
    events,             \* _fetch_incidents: events (sorted)
    idx,                \* _fetch_incidents: position of the for loop
    incident,           \* _fetch_incidents: incident under assembly
    det,                \* get_incident_details: locals / result
    out,                \* _fetch_incidents: out
    calls,              \* enrichment REST calls issued: <<endpoint, idx, ok>>
    exc,                \* exception that escaped _fetch_incidents ("" = none)
    exc_in,             \* the function whose statement raised it
    job_response,       \* get_job_details: reply to GET /Job/{id}, current event
    publish_exc,        \* exception that escaped _create_container_and_artifact
    published,          \* incidents handed to _add_container so far
    container_reqs,     \* POST rest/container requests issued
    artifact_reqs,      \* POST rest/artifact requests issued
    artifact_with_false,\* an artifact was posted with container_id False
    status,             \* status of the action result of this invocation
    action_id,          \* self.get_action_identifier() of this invocation
    rest_log,           \* REST calls of a remediation action, in order
    fn_in,              \* arguments of a helper function applied on its own
    fn_out              \* the value it returned

hostvars == <<persisted, clock, tz, feed>>
selfvars == <<state, last_run_epoch, current_run_epoch, max_fetch>>
evvars   == <<queries, critical_events, major_events, combined>>
loopvars == <<events, idx, incident, det, out, calls, exc, exc_in, job_response>>
pubvars  == <<publish_exc, published, container_reqs, artifact_reqs,
              artifact_with_false>>
actvars  == <<action_id, rest_log>>
purevars == <<fn_in, fn_out>>
mainvars == <<hostvars, pc, param, selfvars, evvars, loopvars, pubvars, status,
              actvars>>
vars == <<mainvars, purevars>>

----------------------------------------------------------------------------
(* Bounds *)
MaxEvents == 1      \* longest commservEvents list of an ordinary response
MaxTicks == 1       \* seconds the clock may advance
Clock0 == 3000000   \* the clock's value at the start
MaxAnomalyId == 5   \* largest anomaly code given to get_backup_anomaly
MaxPatterns == 2    \* most patterns given to one extract_from_regex call
MaxCapture == 2     \* longest text a pattern's group captures
MaxMsg == 4         \* most pieces of a message given to format_alert_description
MaxBrowse == 2      \* most entries of a browseResponses list given on its own

(* Program constants *)
DefaultMaxFetch == 100
BackFillSeconds == 30 * 86400
APP_SUCCESS == "APP_SUCCESS"
APP_ERROR == "APP_ERROR"
NoStatus == "unset"
ANOMALY_TYPE_1 == "File Activity"
ANOMALY_TYPE_2 == "File Type"
ANOMALY_TYPE_3 == "Threat Analysis"
ANOMALY_TYPE_UNDEFINED == "Undefined"
SEVERITY_HIGH == "high"
SEVERITY_MEDIUM == "medium"
SUPPORTED_EVENT_CODES == {"14:337"}

(* Python values *)
PyNone == [type |-> "NoneType", val |-> 0]
PyInt(n) == [type |-> "int", val |-> n]
PyEmptyStr == [type |-> "str", val |-> 0]
PyNoList == [type |-> "NoneType", val |-> <<>>]
PyList(s) == [type |-> "list", val |-> s]
IsNone(v) == v.type = "NoneType"
KeyAbsent == [type |-> "absent", val |-> 0]
PyEmptyDict == [type |-> "dict", val |-> <<>>]
\* a str as the sequence of its characters
PyStr(chars) == [type |-> "str", val |-> chars]
\* RetVal(val1, val2): the pair every REST helper is meant to return
RetVal(val1, val2) == [type |-> "RetVal", ret_val |-> val1, response |-> val2]
\* no value yet: the function has not returned
NotApplied == [type |-> "pending", val |-> 0]

NoMatch == "nomatch"
NoExc == ""
NoAction == ""
TzOffsets == {0, 3600}
\* the actions handle_action dispatches that the model covers
ActionIds == {"on_poll", "disable_user", "disable_data_aging", "disable_idp"}
\* param["container_count"]: not supplied, or a count
ContainerCounts == {KeyAbsent, PyInt(1), PyInt(2)}

----------------------------------------------------------------------------
(* The backup platform: events it may report and the jobs it knows *)

\* the sequences over S of length n at most
RECURSIVE SeqsUpTo(_, _)
SeqsUpTo(S, n) ==
    IF n = 0 THEN {<<>>}
    ELSE LET shorter == SeqsUpTo(S, n - 1)
         IN  shorter \cup {Append(s, e) : s \in {t \in shorter : Len(t) = n - 1}, e \in S}

\* re.search(pattern, message, re.IGNORECASE) for a pattern with one group:
\* None, or a match object with the text the group captured
SearchNone == [type |-> "NoneType", groups |-> <<>>]
Match(capture) == [type |-> "Match", groups |-> <<capture>>]
Captures == SeqsUpTo({" ", "x"}, MaxCapture)
SearchResults == {SearchNone} \cup {Match(c) : c \in Captures}

\* calls of extract_from_regex: what each pattern of the argument list finds
\* in the message, in the order of the list, and the default value
RegexCalls ==
    [type : {"extract_from_regex"},
     matches : SeqsUpTo(SearchResults, MaxPatterns),
     default_value : {PyNone, PyStr(<<"0">>)}]

\* a message as the sequence of its pieces: the tags and markers that
\* format_alert_description looks for, a blank, and other text
MsgPieces == {"<html>", "</html>", "Detected ", " Please click ", "Possible ",
              "<span style=", " ", "x"}
AlertMessages ==
    [type : {"format_alert_description"}, msg : SeqsUpTo(MsgPieces, MaxMsg)]

\* browseResponses lists handed to the loop of get_files_list: an entry has
\* respType 0, another respType or none, and its browseResult has a
\* dataResultSet of rows or none
RowA == [path |-> <<"C:", "a", "x.exe">>, displayName |-> "x.exe",
         displayPath |-> <<"C:", "a", "x.exe">>, size |-> 4]
RowB == [path |-> <<"C:", "b", "y.txt">>, displayName |-> "y.txt",
         displayPath |-> <<"C:", "b", "y.txt">>, size |-> 1]
RowLists == {<<>>, <<RowA>>, <<RowB, RowA>>}
BrowseEntries ==
    {[respType |-> t, dataResultSet |-> rows] : t \in {0, 2}, rows \in RowLists}
    \cup {[dataResultSet |-> rows] : rows \in RowLists}
    \cup {[respType |-> 0]}
BrowseLists ==
    [type : {"get_files_list"},
     browse_responses : SeqsUpTo(BrowseEntries, MaxBrowse),
     anomaly_sub_type : {ANOMALY_TYPE_2, ANOMALY_TYPE_3}]

\* anomaly codes handed to get_backup_anomaly
AnomalyIds ==
    {[type |-> "get_backup_anomaly", anomaly_id |-> n] : n \in (0 - 1)..MaxAnomalyId}

\* HTTP replies: the words of interest the Content-Type header contains, the
\* status code, the body text, whether r.json() parses the body and whether
\* BeautifulSoup accepts it
StatusCodes == {199, 200, 201, 398, 399, 400}
HttpResponses ==
    {r \in [type : {"_process_response"},
            content_type : SUBSET {"json", "html"},
            status_code : StatusCodes,
            text : {"", "body"},
            json_ok : BOOLEAN,
            html_ok : BOOLEAN] :
        /\ r.json_ok => r.text # ""
        /\ ~r.html_ok => r.text # ""}

Msg(anomaly, job, jobid) == [AnomalyType |-> anomaly, job |-> job, JobId |-> jobid]

Event(id, code, time, msg) ==
    [id |-> id, eventCodeString |-> code, timeSource |-> time,
     subsystem |-> "CvStatAnalysis", description |-> msg]

EvFileType    == Event(1, "14:337", 200, Msg("2", "1", NoMatch))
EvThreat      == Event(2, "14:337", 100, Msg("3", NoMatch, "2"))
EvUnsupported == Event(3, "99:99", 100, Msg("2", "1", NoMatch))
EvNoAnomaly   == Event(4, "14:337", 100, Msg(NoMatch, "1", NoMatch))

Pool == {EvFileType, EvThreat, EvUnsupported, EvNoAnomaly}

\* further alerts, which exercise get_incident_details: a File Activity alert
\* of a job with a subclient
EvFileActivity == Event(5, "14:337", 250, Msg("1", "1", NoMatch))

\* a File Type alert of a job whose details name no subclient; its message
\* carries file counts: the text between the brackets of each label present
EvCounts ==
    Event(8, "14:337", 220,
          Msg("2", "3", NoMatch) @@
          [SuspiciousFileCount |-> <<"1", "2">>,
           ModifiedFileCount |-> <<"0">>,
           RenamedFileCount |-> <<" ", "7">>,
           CreatedFileCount |-> <<>>])

\* a Threat Analysis alert of a job with a subclient and browse rows
EvThreatFiles == Event(7, "14:337", 120, Msg("3", "1", NoMatch))

\* an alert whose message says AnomalyType:[0]
EvZeroAnomaly == Event(9, "14:337", 300, Msg("0", "1", NoMatch))

\* an alert with a subtype code outside the table, of a job with a subclient
EvUndefined == Event(10, "14:337", 140, Msg("7", "1", NoMatch))

AssemblerPool == {EvCounts, EvFileActivity, EvThreatFiles}

\* alerts of the categories for which no files are browsed
CategoryPool == {EvFileActivity, EvZeroAnomaly, EvUndefined}

\* a batch that, returned by both events queries, makes a combined list longer
\* than the default maximum of _fetch_incidents
BigBatch ==
    [i \in 1..((DefaultMaxFetch \div 2) + 1) |-> IF i = 1 THEN EvFileType ELSE EvThreat]

JobFound(start, end, subclient) ==
    [type |-> "dict", totalRecordsWithoutPaging |-> 1,
     jobStartTime |-> start, jobEndTime |-> end, subclientId |-> subclient]
JobNotFound == [type |-> "dict", totalRecordsWithoutPaging |-> 0,
                jobStartTime |-> 0, jobEndTime |-> 0, subclientId |-> 0]
\* a reply whose record count is below zero
JobNegative == [type |-> "dict", totalRecordsWithoutPaging |-> 0 - 1,
                jobStartTime |-> 0, jobEndTime |-> 0, subclientId |-> 5]
\* details of a job that name no subclient
JobNoSubclient(start, end) ==
    [type |-> "dict", totalRecordsWithoutPaging |-> 1,
     jobStartTime |-> start, jobEndTime |-> end]

JobTable(job_id) ==
    CASE job_id = "1" -> JobFound(50, 60, 5)
      [] job_id = "2" -> JobFound(70, 80, 0)
      [] job_id = "3" -> JobNoSubclient(90, 95)
      [] OTHER -> JobNotFound

\* browseResponses of a successful POST /DoBrowse for the job; a path is the
\* sequence of its backslash-separated components
BrowseResponses(job_id) ==
    IF job_id = "1"
    THEN <<[respType |-> 0,
            dataResultSet |-> <<[path |-> <<"C:", "a", "x.exe">>,
                                 displayName |-> "x.exe",
                                 displayPath |-> <<"C:", "a", "x.exe">>,
                                 size |-> 4]>>],
           [respType |-> 2,
            dataResultSet |-> <<[path |-> <<"C:", "b", "y.txt">>,
                                 displayName |-> "y.txt",
                                 displayPath |-> <<"C:", "b", "y.txt">>,
                                 size |-> 1]>>]>>
    ELSE <<>>

SubclientContent(subclient_id) ==
    IF subclient_id = PyInt(5) THEN <<[path |-> <<"C:", "a">>]>> ELSE <<>>

----------------------------------------------------------------------------
(* Pure functions of the connector *)

StrToInt(s) ==
    CASE s = "0" -> 0 [] s = "1" -> 1 [] s = "2" -> 2 [] s = "3" -> 3 [] OTHER -> 9

\* extract_from_regex(message, default, pattern-for-label): the capture of the
\* label's token, or the default when the pattern does not match
extract_from_regex(token, default_value) ==
    IF token = NoMatch THEN default_value ELSE token

\* a table that takes an unknown code for File Activity
\* str.strip(): leading and trailing white space removed
RECURSIVE lstrip(_)
lstrip(chars) ==
    IF chars # <<>> /\ Head(chars) = " " THEN lstrip(Tail(chars)) ELSE chars
RECURSIVE rstrip(_)
rstrip(chars) ==
    IF chars # <<>> /\ chars[Len(chars)] = " "
    THEN rstrip(SubSeq(chars, 1, Len(chars) - 1)) ELSE chars
strip(chars) == rstrip(lstrip(chars))

\* a loop that goes on to the next pattern when the capture is empty
RECURSIVE extract_from_regex_nonempty(_, _)
extract_from_regex_nonempty(matches, default_value) ==
    IF matches = <<>> THEN default_value
    ELSE LET m == Head(matches)
         IN  IF m # SearchNone /\ Len(m.groups) > 0 /\ strip(m.groups[1]) # <<>>
             THEN PyStr(strip(m.groups[1]))
             ELSE extract_from_regex_nonempty(Tail(matches), default_value)

\* extract_from_regex(message, default_value, *regex_string_args), given
\* what each pattern finds in the message
RECURSIVE extract_from_regex_args(_, _)
extract_from_regex_args(matches, default_value) ==
    IF matches = <<>> THEN default_value
    ELSE LET m == Head(matches)
         IN  IF m # SearchNone /\ Len(m.groups) > 0
             THEN PyStr(strip(m.groups[1]))
             ELSE extract_from_regex_args(Tail(matches), default_value)

\* msg.find(piece): the place of the first occurrence, 0 when there is none
find(msg, piece) ==
    IF \E i \in 1..Len(msg) : msg[i] = piece
    THEN CHOOSE i \in 1..Len(msg) :
             msg[i] = piece /\ \A j \in 1..(i - 1) : msg[j] # piece
    ELSE 0

\* a piece at the start or the end of a text after str.strip(): a marker
\* loses the blank it begins or ends with
lstrip_piece(piece) ==
    IF piece = " Please click " THEN "Please click " ELSE piece
rstrip_piece(piece) ==
    CASE piece = " Please click " -> " Please click"
      [] piece = "Please click " -> "Please click"
      [] piece = "Detected " -> "Detected"
      [] piece = "Possible " -> "Possible"
      [] OTHER -> piece

\* resp.strip() for a text given as pieces
strip_pieces(msg) ==
    LET core == strip(msg)
    IN  IF core = <<>> THEN <<>>
        ELSE LET left == <<lstrip_piece(Head(core))>> \o Tail(core)
             IN  SubSeq(left, 1, Len(left) - 1) \o <<rstrip_piece(left[Len(left)])>>

format_alert_description(message) ==
    IF find(message, "<html>") > 0 /\ find(message, "</html>") > 0
    THEN LET resp == SubSeq(message, find(message, "<html>") + 1,
                            find(message, "</html>") - 1)
             msg == strip_pieces(resp)
         IN  IF find(msg, "Detected ") > 0 /\ find(msg, " Please click ") > 0
             THEN SubSeq(msg, find(msg, "Detected "), find(msg, " Please click ") - 1)
             ELSE IF find(msg, "Possible ") > 0 /\ find(msg, "<span style=") > 0
             THEN SubSeq(msg, find(msg, "Possible "), find(msg, "<span style=") - 1)
             ELSE message
    ELSE message

\* int(s) for a str of decimal digits
DigitVal(c) ==
    CASE c = "0" -> 0 [] c = "1" -> 1 [] c = "2" -> 2 [] c = "3" -> 3
      [] c = "4" -> 4 [] c = "5" -> 5 [] c = "6" -> 6 [] c = "7" -> 7
      [] c = "8" -> 8 [] c = "9" -> 9
RECURSIVE int(_)
int(chars) ==
    IF Len(chars) = 1 THEN DigitVal(chars[1])
    ELSE 10 * int(SubSeq(chars, 1, Len(chars) - 1)) + DigitVal(chars[Len(chars)])

\* a function that hands its argument back
if_zero_set_none_keep(value) == value

\* if_zero_set_none: "value and int(value) > 0"
if_zero_set_none(value) ==
    IF ~IsNone(value) /\ value.val # <<>> /\ int(value.val) > 0
    THEN value ELSE PyNone

\* re.search for the pattern label:\[(.*?)\] in the message
search(message, label) ==
    IF label \in DOMAIN message THEN Match(message[label]) ELSE SearchNone

\* one file counter of get_incident_details
file_count(message, label) ==
    if_zero_set_none(extract_from_regex_args(<<search(message, label)>>, PyNone))

get_backup_anomaly_unknown(anomaly_id) ==
    CASE anomaly_id = 0 -> ANOMALY_TYPE_UNDEFINED
      [] anomaly_id = 2 -> ANOMALY_TYPE_2
      [] anomaly_id = 3 -> ANOMALY_TYPE_3
      [] OTHER -> ANOMALY_TYPE_1

get_backup_anomaly(anomaly_id) ==
    CASE anomaly_id = 0 -> ANOMALY_TYPE_UNDEFINED
      [] anomaly_id = 1 -> ANOMALY_TYPE_1
      [] anomaly_id = 2 -> ANOMALY_TYPE_2
      [] anomaly_id = 3 -> ANOMALY_TYPE_3
      [] OTHER -> ANOMALY_TYPE_UNDEFINED

define_severity(anomaly_sub_type) ==
    IF anomaly_sub_type \in {"File Type", "Threat Analysis"} THEN SEVERITY_HIGH
    ELSE IF anomaly_sub_type = "File Activity" THEN SEVERITY_MEDIUM
    ELSE "None"

\* r.json() of a body that parses
json(r) == [type |-> "dict", val |-> <<r.text>>]

_process_empty_response(response) ==
    IF response.status_code = 200 THEN RetVal(TRUE, PyEmptyDict)
    ELSE RetVal(FALSE, PyNone)

\* the except branch returns None, not a RetVal
_process_html_response(response) ==
    IF response.html_ok THEN RetVal(FALSE, PyNone) ELSE PyNone

_process_json_response(r) ==
    IF ~r.json_ok THEN RetVal(FALSE, PyNone)
    ELSE IF 200 <= r.status_code /\ r.status_code < 399
    THEN RetVal(TRUE, json(r))
    ELSE RetVal(FALSE, PyNone)

_process_response(r) ==
    IF "json" \in r.content_type THEN _process_json_response(r)
    ELSE IF "html" \in r.content_type THEN _process_html_response(r)
    ELSE IF r.text = "" THEN _process_empty_response(r)
    ELSE RetVal(FALSE, PyNone)

\* datetime.fromtimestamp(t): wall-clock seconds in the machine's local zone
fromtimestamp(t) == t + tz
\* datetime.utcfromtimestamp(t): wall-clock seconds in UTC
utcfromtimestamp(t) == t

\* int((datetime.utcnow().astimezone() - timedelta(days=30)).timestamp()):
\* the naive UTC reading is taken to be local time
back_fill == (clock - tz) - BackFillSeconds

\* the list left in the order the two queries returned it
sorted_unsorted(s) == s

\* sorted(events, key=lambda d: d.get("timeSource")): the stable ascending
\* order; the element at place k is the one with k elements not after it
sorted(s) ==
    LET n == Len(s)
        before(j, i) == \/ s[j].timeSource < s[i].timeSource
                        \/ s[j].timeSource = s[i].timeSource /\ j <= i
        rank == [i \in 1..n |-> Cardinality({j \in 1..n : before(j, i)})]
    IN  [k \in 1..n |-> s[CHOOSE i \in 1..n : rank[i] = k]]

\* a filter that lets every event code through
Supported_any(event) == TRUE

Supported(event) == event.eventCodeString \in SUPPORTED_EVENT_CODES

\* the query string get_events builds from its keyword arguments
event_url(show_minor, show_major, show_critical) ==
    [showMinor |-> show_minor, showMajor |-> show_major,
     showCritical |-> show_critical]

\* get_events(action_result, show_critical="true"): defaults fill the rest
get_events_critical_args == event_url("false", "true", "true")
\* get_events(action_result, show_major="true")
get_events_major_args == event_url("false", "true", "true")

\* get_events: the value returned for a REST result
get_events_result(rest) ==
    IF rest.ret_val /\ rest.commservEvents # <<>>
    THEN PyList(rest.commservEvents) ELSE PyNoList

\* get_events_list: events.extend(critical), events.extend(major); each event
\* is tagged with its position in the combined list (history only)
get_events_list(crit, major) ==
    LET c == IF IsNone(crit) THEN <<>> ELSE crit.val
        m == IF IsNone(major) THEN <<>> ELSE major.val
        all == c \o m
    IN  [i \in 1..Len(all) |-> [ev |-> all[i], pos |-> i, timeSource |-> all[i].timeSource]]

\* results _make_rest_call can give for GET /events
RestError == [ret_val |-> FALSE, commservEvents |-> <<>>]
EventsResults ==
    {RestError}
    \cup {[ret_val |-> TRUE, commservEvents |-> s] : s \in feed}

----------------------------------------------------------------------------
InitRest ==
    /\ persisted = PyNone
    /\ pc = "idle"
    /\ param = KeyAbsent
    /\ state = PyNone
    /\ last_run_epoch = PyNone
    /\ current_run_epoch = PyNone
    /\ max_fetch = PyNone
    /\ queries = <<>>
    /\ critical_events = PyNoList
    /\ major_events = PyNoList
    /\ combined = <<>>
    /\ events = <<>>
    /\ idx = 0
    /\ incident = PyNone
    /\ det = PyNone
    /\ out = <<>>
    /\ calls = {}
    /\ exc = NoExc
    /\ exc_in = NoExc
    /\ job_response = PyNone
    /\ publish_exc = NoExc
    /\ published = 0
    /\ container_reqs = 0
    /\ artifact_reqs = 0
    /\ artifact_with_false = FALSE
    /\ status = NoStatus
    /\ action_id = NoAction
    /\ rest_log = <<>>

\* no helper function is applied on its own
NoPure ==
    /\ fn_in = PyNone
    /\ fn_out = NotApplied

\* the platform reports short lists of events of the pool
Init ==
    /\ feed = SeqsUpTo(Pool, MaxEvents)
    /\ clock = Clock0
    /\ tz \in TzOffsets
    /\ InitRest
    /\ NoPure

\* the platform reports one long batch, on a machine whose local time is UTC
InitBig ==
    /\ feed = {BigBatch}
    /\ clock = Clock0
    /\ tz = 0
    /\ InitRest
    /\ NoPure

\* the platform reports short lists of the alerts of the second pool, on a
\* machine whose local time is UTC, one second before the clock's last value
InitAssembler ==
    /\ feed = SeqsUpTo(AssemblerPool, MaxEvents)
    /\ clock = Clock0 + MaxTicks - 1
    /\ tz = 0
    /\ InitRest
    /\ NoPure

\* a helper function is about to be applied to arguments of a small set; the
\* connector itself is idle
InitPure ==
    /\ feed = {<<>>}
    /\ clock = Clock0
    /\ tz = 0
    /\ InitRest
    /\ fn_in \in HttpResponses \cup AnomalyIds \cup RegexCalls \cup AlertMessages
                 \cup BrowseLists
    /\ fn_out = NotApplied

\* the platform reports short lists of the alerts of the third pool
InitCategories ==
    /\ feed = SeqsUpTo(CategoryPool, MaxEvents)
    /\ clock = Clock0 + MaxTicks - 1
    /\ tz = 0
    /\ InitRest
    /\ NoPure

\* time passes: before an invocation reads the clock for the first time, and
\* between its two events queries
Tick ==
    /\ pc \in {"on_poll", "get_events_major"}
    /\ clock < Clock0 + MaxTicks
    /\ clock' = clock + 1
    /\ UNCHANGED <<persisted, tz, feed, pc, param, selfvars, evvars, loopvars,
                   pubvars, status, actvars, purevars>>

\* __init__ and initialize: a fresh connector loads the saved state
Initialize ==
    /\ pc = "idle"
    /\ \E a \in ActionIds :
         /\ action_id' = a
         /\ pc' = a
         /\ IF a = "on_poll"
            THEN \E cc \in ContainerCounts : param' = cc
            ELSE param' = KeyAbsent
    /\ state' = persisted
    /\ last_run_epoch' = PyNone
    /\ current_run_epoch' = PyNone
    /\ max_fetch' = PyNone
    /\ queries' = <<>>
    /\ critical_events' = PyNoList
    /\ major_events' = PyNoList
    /\ combined' = <<>>
    /\ events' = <<>>
    /\ idx' = 0
    /\ incident' = PyNone
    /\ det' = PyNone
    /\ out' = <<>>
    /\ calls' = {}
    /\ exc' = NoExc
    /\ exc_in' = NoExc
    /\ job_response' = PyNone
    /\ publish_exc' = NoExc
    /\ published' = 0
    /\ container_reqs' = 0
    /\ artifact_reqs' = 0
    /\ artifact_with_false' = FALSE
    /\ status' = NoStatus
    /\ rest_log' = <<>>
    /\ UNCHANGED <<persisted, clock, tz, feed, purevars>>

\* the value of last_run that _handle_on_poll works with
on_poll_last_run == PyNone

\* _handle_on_poll up to the call of _fetch_anomalous_events
HandleOnPoll ==
    /\ pc = "on_poll"
    /\ max_fetch' = IF param = KeyAbsent THEN PyEmptyStr ELSE param
    /\ last_run_epoch' = IF IsNone(on_poll_last_run) THEN PyInt(back_fill)
                         ELSE on_poll_last_run
    /\ pc' = "get_events_critical"
    /\ UNCHANGED <<hostvars, actvars, purevars, param, state, current_run_epoch, evvars, loopvars,
                   pubvars, status>>

\* the record of one GET /events request built by get_events
EventsQuery(args, rest) ==
    [showMinor |-> args.showMinor, showMajor |-> args.showMajor,
     showCritical |-> args.showCritical,
     fromTime |-> last_run_epoch, toTime |-> PyInt(clock), ok |-> rest.ret_val]

\* get_events(action_result, show_critical="true")
GetEventsCritical ==
    /\ pc = "get_events_critical"
    /\ \E rest \in EventsResults :
         /\ current_run_epoch' = PyInt(clock)
         /\ queries' = Append(queries, EventsQuery(get_events_critical_args, rest))
         /\ critical_events' = get_events_result(rest)
    /\ pc' = "get_events_major"
    /\ UNCHANGED <<hostvars, actvars, purevars, param, state, last_run_epoch, max_fetch,
                   major_events, combined, loopvars, pubvars, status>>

\* _fetch_incidents: the limit the loop compares len(out) with
fetch_max == IF IsNone(max_fetch) THEN PyInt(DefaultMaxFetch) ELSE max_fetch

\* get_events(action_result, show_major="true"), the rest of get_events_list,
\* and _fetch_incidents up to its for loop
GetEventsMajor ==
    /\ pc = "get_events_major"
    /\ \E rest \in EventsResults :
         /\ current_run_epoch' = PyInt(clock)
         /\ queries' = Append(queries, EventsQuery(get_events_major_args, rest))
         /\ major_events' = get_events_result(rest)
    /\ combined' = get_events_list(critical_events, major_events')
    /\ IF Len(combined') = 0
       THEN /\ events' = <<>>
            /\ idx' = 0
            /\ pc' = "publish"
       ELSE /\ events' = sorted(combined')
            /\ idx' = 1
            /\ pc' = "loop"
    /\ UNCHANGED <<hostvars, actvars, purevars, param, state, last_run_epoch, max_fetch,
                   critical_events, incident, det, out, calls, exc, exc_in, job_response, pubvars,
                   status>>

\* an exception raised in function f leaves _fetch_incidents and is caught in
\* _handle_on_poll, which returns the error status
Raise(e, f) ==
    /\ exc' = e
    /\ exc_in' = f
    /\ status' = APP_ERROR
    /\ pc' = "finalize"

\* a test that lets every subtype code through
no_anomaly_never(anomaly_sub_type) == FALSE

\* get_incident_details: "anomaly_sub_type is None or anomaly_sub_type == '0'"
\* (the default of the extraction is "0", so None does not occur)
no_anomaly(anomaly_sub_type) == anomaly_sub_type = "0"

\* the job id get_incident_details extracts: "job [..]" first, then "JobId:[..]"
extract_job_id(msg) ==
    LET first == extract_from_regex(msg.job, "0")
    IN  IF first = "0" THEN extract_from_regex(msg.JobId, "0") ELSE first

\* one iteration of the for loop of _fetch_incidents up to the job lookup of
\* get_incident_details
LoopStep ==
    /\ pc = "loop"
    /\ IF idx > Len(events)
       THEN /\ pc' = "publish"
            /\ UNCHANGED <<idx, incident, det, exc, exc_in, job_response, status>>
       ELSE LET event == events[idx].ev
                anomaly == extract_from_regex(event.description.AnomalyType, "0")
            IN  IF ~Supported(event)
                THEN /\ idx' = idx + 1
                     /\ UNCHANGED <<pc, incident, det, exc, exc_in,
                                    job_response, status>>
                ELSE /\ job_response' = PyNone
                     /\ incident' = [type |-> "dict",
                                     event_id |-> event.id,
                                     event_time |-> fromtimestamp(event.timeSource),
                                     originating_program |-> event.subsystem,
                                     timeSource |-> event.timeSource,
                                     pos |-> events[idx].pos]
                     /\ IF no_anomaly(anomaly)
                        THEN \* get_incident_details returns None; det.get fails
                             /\ det' = PyNone
                             /\ Raise("AttributeError", "_fetch_incidents")
                             /\ UNCHANGED idx
                        ELSE /\ det' = [type |-> "locals",
                                        anomaly_sub_type |->
                                            get_backup_anomaly(StrToInt(anomaly)),
                                        job_id |-> extract_job_id(event.description),
                                        files_list |-> <<>>]
                             /\ pc' = "get_job_details"
                             /\ UNCHANGED <<idx, exc, exc_in, status>>
    /\ UNCHANGED <<hostvars, actvars, purevars, param, selfvars, evvars, events, out, calls, pubvars>>

\* get_job_details: the value returned for a reply that is not None
get_job_details_any(response) == response

get_job_details(response) ==
    IF response.totalRecordsWithoutPaging > 0 THEN response ELSE PyNone

\* job_details.get("jobDetail", {}).get(...).get("subclientId")
subclient_id_of(job) ==
    IF "subclientId" \in DOMAIN job THEN PyInt(job.subclientId) ELSE PyNone

\* the test "subclient_id != 0" of get_incident_details
subclient_id_not_zero(subclient_id) ==
    IF IsNone(subclient_id) THEN TRUE ELSE subclient_id.val # 0

\* the record get_incident_details returns, merged into the incident
Details(job, files_list, scanned_folder_list) ==
    [type |-> "dict",
     event_id |-> incident.event_id,
     event_time |-> incident.event_time,
     originating_program |-> incident.originating_program,
     timeSource |-> incident.timeSource,
     pos |-> incident.pos,
     subclient_id |-> subclient_id_of(job),
     files_list |-> files_list,
     scanned_folder_list |-> scanned_folder_list,
     anomaly_sub_type |-> det.anomaly_sub_type,
     severity |-> define_severity(det.anomaly_sub_type),
     affected_files_count |->
         file_count(events[idx].ev.description, "SuspiciousFileCount"),
     modified_files_count |->
         file_count(events[idx].ev.description, "ModifiedFileCount"),
     deleted_files_count |->
         file_count(events[idx].ev.description, "DeletedFileCount"),
     renamed_files_count |->
         file_count(events[idx].ev.description, "RenamedFileCount"),
     created_files_count |->
         file_count(events[idx].ev.description, "CreatedFileCount"),
     job_start_time |-> utcfromtimestamp(job.jobStartTime),
     job_end_time |-> utcfromtimestamp(job.jobEndTime),
     job_id |-> det.job_id]

\* a final filter that lets every category through
KeepIncident_all(d) == TRUE

\* a final filter that also drops an event id already in out
KeepIncident_dedup(d) ==
    /\ d.anomaly_sub_type \in {"File Type", "Threat Analysis"}
    /\ \A i \in 1..Len(out) : out[i].event_id # d.event_id

\* the final filter of the loop body, out.append and the max_fetch test
KeepIncident(d) == d.anomaly_sub_type \in {"File Type", "Threat Analysis"}

FinishEvent(d) ==
    /\ det' = d
    /\ IF KeepIncident(d)
       THEN /\ out' = Append(out, d)
            /\ IF fetch_max.type = "int" /\ Len(out') = fetch_max.val
               THEN pc' = "publish" /\ UNCHANGED idx
               ELSE pc' = "loop" /\ idx' = idx + 1
       ELSE /\ out' = out
            /\ pc' = "loop"
            /\ idx' = idx + 1
    /\ UNCHANGED <<exc, exc_in, status>>

\* results _make_rest_call can give for GET /Job/{id}
JobResults(job_id) ==
    {[ret_val |-> FALSE, response |-> PyNone],
     [ret_val |-> TRUE, response |-> JobTable(job_id)],
     [ret_val |-> TRUE, response |-> JobNotFound],
     [ret_val |-> TRUE, response |-> JobNegative]}

\* get_job_details and get_incident_details up to fetch_file_details
GetJobDetails ==
    /\ pc = "get_job_details"
    /\ \E rest \in JobResults(det.job_id) :
         /\ calls' = calls \cup {<<"Job", idx, rest.ret_val>>}
         /\ job_response' = [type |-> "RetVal", ret_val |-> rest.ret_val,
                              response |-> rest.response, idx |-> idx]
         /\ IF IsNone(rest.response)
            THEN \* "totalRecordsWithoutPaging" in None
                 /\ Raise("TypeError", "get_job_details")
                 /\ UNCHANGED <<idx, det, out>>
            ELSE IF IsNone(get_job_details(rest.response))
            THEN \* job_details is None: get_incident_details returns None
                 \* and det.get fails in the loop
                 /\ det' = PyNone
                 /\ Raise("AttributeError", "_fetch_incidents")
                 /\ UNCHANGED <<idx, out>>
            ELSE IF subclient_id_not_zero(subclient_id_of(rest.response))
            THEN /\ det' = [type |-> "locals",
                            anomaly_sub_type |-> det.anomaly_sub_type,
                            job_id |-> det.job_id,
                            files_list |-> <<>>,
                            job |-> rest.response]
                 /\ pc' = "get_files_list"
                 /\ UNCHANGED <<idx, out, exc, exc_in, status>>
            ELSE FinishEvent(Details(rest.response, <<>>, <<>>))
    /\ UNCHANGED <<hostvars, actvars, purevars, param, selfvars, evvars, events,
                   incident, pubvars>>

\* get_files_list: the entry built from one dataResultSet row
FileEntry(row, anomaly_sub_type) ==
    LET base == [sizeinkb |-> row.size,
                 folder |-> SubSeq(row.path, 1, Len(row.path) - 1),
                 filename |-> row.displayName]
    IN  IF anomaly_sub_type = ANOMALY_TYPE_2
        THEN [sizeinkb |-> base.sizeinkb, folder |-> base.folder,
              filename |-> base.filename, fullPath |-> row.displayPath]
        ELSE base

\* a test that takes every entry for a result
is_result_any(browse_resp) == TRUE

\* get_files_list: browse_resp.get("respType") == 0
is_result(browse_resp) ==
    "respType" \in DOMAIN browse_resp /\ browse_resp.respType = 0

\* get_files_list: the loop over browseResponses
RECURSIVE files_of(_, _)
files_of(browse_responses, anomaly_sub_type) ==
    IF browse_responses = <<>> THEN <<>>
    ELSE LET browse_resp == Head(browse_responses)
             rows == IF /\ is_result(browse_resp)
                        /\ "dataResultSet" \in DOMAIN browse_resp
                     THEN [i \in 1..Len(browse_resp.dataResultSet) |->
                             FileEntry(browse_resp.dataResultSet[i], anomaly_sub_type)]
                     ELSE <<>>
         IN  rows \o files_of(Tail(browse_responses), anomaly_sub_type)

\* a test that sends a browse request for every category
browses_all(anomaly_sub_type) == TRUE

\* get_files_list: the categories that have a browse payload
browses(anomaly_sub_type) ==
    anomaly_sub_type \in {ANOMALY_TYPE_2, ANOMALY_TYPE_3}

\* results _make_rest_call can give for POST /DoBrowse
BrowseResults(job_id) ==
    {[ret_val |-> FALSE, response |-> PyNone],
     [ret_val |-> TRUE,
      response |-> [type |-> "dict", browseResponses |-> BrowseResponses(job_id)]]}

\* get_files_list, called first by fetch_file_details
GetFilesList ==
    /\ pc = "get_files_list"
    /\ IF browses(det.anomaly_sub_type)
       THEN \E rest \in BrowseResults(det.job_id) :
              /\ calls' = calls \cup {<<"DoBrowse", idx, rest.ret_val>>}
              /\ det' = [det EXCEPT !.files_list =
                            IF IsNone(rest.response) THEN <<>>
                            ELSE files_of(rest.response.browseResponses,
                                          det.anomaly_sub_type)]
       ELSE /\ det' = [det EXCEPT !.files_list = <<>>]
            /\ UNCHANGED calls
    /\ pc' = "get_subclient_content_list"
    /\ UNCHANGED <<hostvars, actvars, purevars, param, selfvars, evvars, events, idx, incident,
                   out, exc, exc_in, job_response, pubvars, status>>

\* results _make_rest_call can give for GET /Subclient/{id}
SubclientResults(subclient_id) ==
    {[ret_val |-> FALSE, response |-> PyNone],
     [ret_val |-> TRUE,
      response |-> [type |-> "dict", content |-> SubclientContent(subclient_id)]]}

\* get_subclient_content_list, the rest of fetch_file_details and of
\* get_incident_details, and the end of the loop body
GetSubclientContentList ==
    /\ pc = "get_subclient_content_list"
    /\ \E rest \in SubclientResults(subclient_id_of(det.job)) :
         /\ calls' = calls \cup {<<"Subclient", idx, rest.ret_val>>}
         /\ IF IsNone(rest.response)
            THEN \* response.get on None
                 /\ Raise("AttributeError", "get_subclient_content_list")
                 /\ UNCHANGED <<idx, det, out>>
            ELSE LET folders_list == [i \in 1..Len(rest.response.content) |->
                                         rest.response.content[i].path]
                     flat == det.anomaly_sub_type \in {ANOMALY_TYPE_3, ANOMALY_TYPE_2}
                 IN  IF flat /\ \E i \in 1..Len(det.files_list) :
                                   "fullPath" \notin DOMAIN det.files_list[i]
                     THEN \* d['fullPath'] on an entry without that key
                          /\ Raise("KeyError", "get_incident_details")
                          /\ UNCHANGED <<idx, det, out>>
                     ELSE FinishEvent(Details(det.job,
                              IF flat
                              THEN [i \in 1..Len(det.files_list) |->
                                      det.files_list[i].fullPath]
                              ELSE det.files_list,
                              folders_list))
    /\ UNCHANGED <<hostvars, actvars, purevars, param, selfvars, evvars, events,
                   incident, job_response, pubvars>>

\* outcomes of one requests.post to the host: a 200 reply, another status
\* with a JSON error body, or an exception of the transport
HostResults == {"ok", "rejected", "raised"}

\* one iteration of _create_container_and_artifact: _add_container and
\* _add_artifact for the next incident; after the last one _handle_on_poll
\* returns success
CreateContainerAndArtifact ==
    /\ pc = "publish"
    /\ IF published = Len(out)
       THEN /\ status' = APP_SUCCESS
            /\ pc' = "finalize"
            /\ UNCHANGED pubvars
       ELSE \E c \in HostResults :
              /\ container_reqs' = container_reqs + 1
              /\ IF c = "raised"
                 THEN /\ publish_exc' = "RequestException"
                      /\ status' = APP_ERROR
                      /\ pc' = "finalize"
                      /\ UNCHANGED <<published, artifact_reqs, artifact_with_false>>
                 ELSE \* container_id is the new id or False; neither is None
                      \E a \in HostResults :
                        /\ artifact_reqs' = artifact_reqs + 1
                        /\ artifact_with_false' =
                               (artifact_with_false \/ c = "rejected")
                        /\ IF a = "raised"
                           THEN /\ publish_exc' = "RequestException"
                                /\ status' = APP_ERROR
                                /\ pc' = "finalize"
                                /\ UNCHANGED published
                           ELSE /\ published' = published + 1
                                /\ UNCHANGED <<publish_exc, status, pc>>
    /\ UNCHANGED <<hostvars, actvars, purevars, param, selfvars, evvars, loopvars>>

\* the entry of rest_log for one call of _make_rest_call: endpoint, whether
\* ret_val is a success, and the error code of the reply body (0 for none)
RestCall(endpoint, reply, error_code) ==
    [endpoint |-> endpoint, ok |-> reply.ret_val, errorCode |-> error_code]

\* a call whose result is the error pair
RestFailed == [ret_val |-> FALSE, response |-> PyNone]

\* replies to GET /User?level=10: the user of param["user_email"] is in the
\* list or is not
UserListReplies ==
    {RestFailed,
     [ret_val |-> TRUE, response |-> [type |-> "dict", found |-> TRUE]],
     [ret_val |-> TRUE, response |-> [type |-> "dict", found |-> FALSE]]}
\* replies to GET /User/{id}
UserReplies ==
    {RestFailed,
     [ret_val |-> TRUE, response |-> [type |-> "dict", enableUser |-> TRUE]],
     [ret_val |-> TRUE, response |-> [type |-> "dict", enableUser |-> FALSE]]}
\* replies to PUT /User/{id}/Disable
DisableReplies ==
    {RestFailed}
    \cup {[ret_val |-> TRUE, response |-> [type |-> "dict", errorCode |-> c]] :
              c \in {0, 1}}

\* _handle_disable_user
HandleDisableUser ==
    /\ pc = "disable_user"
    /\ \E r1 \in UserListReplies :
         LET c1 == RestCall("/User?level=10", r1, 0)
         IN  IF IsNone(r1.response)
             THEN \* response["users"] on None, caught by the handler
                  rest_log' = <<c1>> /\ status' = APP_ERROR
             ELSE IF ~r1.response.found
             THEN \* Could not find user
                  rest_log' = <<c1>> /\ status' = APP_ERROR
             ELSE \E r2 \in UserReplies :
                    LET c2 == RestCall("/User/{id}", r2, 0)
                    IN  IF ~r2.ret_val
                        THEN \* "if ret_val:" skips the rest of the body
                             rest_log' = <<c1, c2>> /\ status' = APP_SUCCESS
                        ELSE IF ~r2.response.enableUser
                        THEN rest_log' = <<c1, c2>> /\ status' = APP_SUCCESS
                        ELSE \E r3 \in DisableReplies :
                               IF ~r3.ret_val
                               THEN /\ rest_log' =
                                        <<c1, c2, RestCall("/User/{id}/Disable", r3, 0)>>
                                    /\ status' = APP_ERROR
                               ELSE /\ rest_log' =
                                        <<c1, c2, RestCall("/User/{id}/Disable", r3,
                                                           r3.response.errorCode)>>
                                    /\ status' = IF r3.response.errorCode > 0
                                                 THEN APP_ERROR ELSE APP_SUCCESS
    /\ pc' = "finalize"
    /\ UNCHANGED <<hostvars, purevars, param, selfvars, evvars, loopvars,
                   pubvars, action_id>>

\* replies to GET /GetId?clientname=..: the client's id, or a negative id
GetIdReplies ==
    {RestFailed}
    \cup {[ret_val |-> TRUE, response |-> [type |-> "dict", clientId |-> c]] :
              c \in {0 - 1, 7}}

\* get_client_id: the value returned for a reply that is not None
get_client_id(resp) == IF resp.clientId < 0 THEN 0 ELSE resp.clientId

\* replies to POST /Client/{id}
ClientReplies ==
    {RestFailed}
    \cup {[ret_val |-> TRUE,
           response |-> [type |-> "dict", errorCode |-> c, errorMessage |-> m]] :
              c \in {0, 2}, m \in {"", "failed"}}

\* _handle_disable_data_aging
HandleDisableDataAging ==
    /\ pc = "disable_data_aging"
    /\ \E r1 \in GetIdReplies :
         LET c1 == RestCall("/GetId", r1, 0)
         IN  IF IsNone(r1.response)
             THEN \* resp.get on None, caught by the handler
                  rest_log' = <<c1>> /\ status' = APP_ERROR
             ELSE IF get_client_id(r1.response) = 0
             THEN \* Invalid client
                  rest_log' = <<c1>> /\ status' = APP_ERROR
             ELSE \E r2 \in ClientReplies :
                    IF ~r2.ret_val
                    THEN /\ rest_log' = <<c1, RestCall("/Client/{id}", r2, 0)>>
                         /\ status' = APP_ERROR
                    ELSE /\ rest_log' = <<c1, RestCall("/Client/{id}", r2,
                                                       r2.response.errorCode)>>
                         /\ status' = IF /\ r2.response.errorCode # 0
                                         /\ r2.response.errorMessage # ""
                                      THEN APP_ERROR ELSE APP_SUCCESS
    /\ pc' = "finalize"
    /\ UNCHANGED <<hostvars, purevars, param, selfvars, evvars, loopvars,
                   pubvars, action_id>>

\* replies to GET /V4/SAML/{name}: an error object, or the provider's state
SamlReplies ==
    {RestFailed,
     [ret_val |-> TRUE, response |-> [type |-> "dict", error |-> TRUE, enabled |-> FALSE]],
     [ret_val |-> TRUE, response |-> [type |-> "dict", error |-> FALSE, enabled |-> TRUE]],
     [ret_val |-> TRUE, response |-> [type |-> "dict", error |-> FALSE, enabled |-> FALSE]]}
\* replies to PUT /V4/SAML/{name}
SamlPutReplies ==
    {RestFailed}
    \cup {[ret_val |-> TRUE, response |-> [type |-> "dict", errorCode |-> c]] :
              c \in {0, 5}}

\* _handle_disable_idp
HandleDisableIdp ==
    /\ pc = "disable_idp"
    /\ \E r1 \in SamlReplies :
         LET c1 == RestCall("/V4/SAML/{name}", r1, 0)
         IN  IF IsNone(r1.response)
             THEN \* "error" in None, caught by the handler
                  rest_log' = <<c1>> /\ status' = APP_ERROR
             ELSE IF r1.response.error
             THEN rest_log' = <<c1>> /\ status' = APP_ERROR
             ELSE IF ~r1.response.enabled
             THEN rest_log' = <<c1>> /\ status' = APP_SUCCESS
             ELSE \E r2 \in SamlPutReplies :
                    IF ~r2.ret_val
                    THEN /\ rest_log' = <<c1, RestCall("PUT /V4/SAML/{name}", r2, 0)>>
                         /\ status' = APP_ERROR
                    ELSE /\ rest_log' = <<c1, RestCall("PUT /V4/SAML/{name}", r2,
                                                       r2.response.errorCode)>>
                         /\ status' = IF r2.response.errorCode # 0
                                      THEN APP_ERROR ELSE APP_SUCCESS
    /\ pc' = "finalize"
    /\ UNCHANGED <<hostvars, purevars, param, selfvars, evvars, loopvars,
                   pubvars, action_id>>

\* finalize: the host saves the state after the action returned
Finalize ==
    /\ pc = "finalize"
    /\ persisted' = current_run_epoch
    /\ state' = current_run_epoch
    /\ pc' = "idle"
    /\ UNCHANGED <<clock, tz, feed, param, last_run_epoch, current_run_epoch,
                   max_fetch, evvars, loopvars, pubvars, status, actvars,
                   purevars>>

\* get_backup_anomaly applied to one code, and define_severity to its result
Classify ==
    /\ fn_in.type = "get_backup_anomaly"
    /\ fn_out = NotApplied
    /\ fn_out' = LET anomaly_sub_type == get_backup_anomaly(fn_in.anomaly_id)
                 IN  [type |-> "classified",
                      anomaly_sub_type |-> anomaly_sub_type,
                      severity |-> define_severity(anomaly_sub_type)]
    /\ UNCHANGED <<mainvars, fn_in>>

\* extract_from_regex applied to one message and list of patterns
ExtractFromRegex ==
    /\ fn_in.type = "extract_from_regex"
    /\ fn_out = NotApplied
    /\ fn_out' = extract_from_regex_args(fn_in.matches, fn_in.default_value)
    /\ UNCHANGED <<mainvars, fn_in>>

\* format_alert_description applied to one message
FormatAlertDescription ==
    /\ fn_in.type = "format_alert_description"
    /\ fn_out = NotApplied
    /\ fn_out' = PyStr(format_alert_description(fn_in.msg))
    /\ UNCHANGED <<mainvars, fn_in>>

\* the loop of get_files_list applied to one browseResponses list
BrowseFiles ==
    /\ fn_in.type = "get_files_list"
    /\ fn_out = NotApplied
    /\ fn_out' = PyList(files_of(fn_in.browse_responses, fn_in.anomaly_sub_type))
    /\ UNCHANGED <<mainvars, fn_in>>

\* _process_response applied to one HTTP reply
ProcessResponse ==
    /\ fn_in.type = "_process_response"
    /\ fn_out = NotApplied
    /\ fn_out' = _process_response(fn_in)
    /\ UNCHANGED <<mainvars, fn_in>>

Next ==
    \/ Tick
    \/ Initialize
    \/ HandleOnPoll
    \/ GetEventsCritical
    \/ GetEventsMajor
    \/ LoopStep
    \/ GetJobDetails
    \/ GetFilesList
    \/ GetSubclientContentList
    \/ CreateContainerAndArtifact
    \/ HandleDisableUser
    \/ HandleDisableDataAging
    \/ HandleDisableIdp
    \/ Finalize

Spec == Init /\ [][Next]_vars

SpecBig == InitBig /\ [][Next]_vars

SpecAssembler == InitAssembler /\ [][Next]_vars

SpecCategories == InitCategories /\ [][Next]_vars

NextPure ==
    \/ ProcessResponse
    \/ Classify
    \/ ExtractFromRegex
    \/ FormatAlertDescription
    \/ BrowseFiles

SpecPure == InitPure /\ [][NextPure]_vars

----------------------------------------------------------------------------
(* Properties *)

InFetch == pc \in {"loop", "get_job_details", "get_files_list",
                   "get_subclient_content_list", "publish", "finalize"}
Returned == pc \in {"publish", "finalize"} /\ exc = NoExc
PollEnded == pc = "finalize" /\ action_id = "on_poll"

\* the limit the poll asked for
ConfiguredMax == IF param = KeyAbsent THEN DefaultMaxFetch ELSE param.val

\* the event qualifies for a record: supported code, category File Type or
\* Threat Analysis
Qualifies(event) ==
    /\ event.eventCodeString = "14:337"
    /\ event.description.AnomalyType \in {"2", "3"}
QualifiesEntry(x) == Qualifies(x.ev)

ListOf(v) == IF IsNone(v) THEN <<>> ELSE v.val
Occurs(event, list) == \E i \in 1..Len(list) : list[i] = event
RecordsOf(event) == Cardinality({i \in 1..Len(out) : out[i].event_id = event.id})

\* events of the sorted list the loop is done with
Processed ==
    IF exc # NoExc \/ pc \in {"loop", "get_job_details", "get_files_list",
                              "get_subclient_content_list"}
    THEN idx - 1
    ELSE IF idx > Len(events) THEN Len(events) ELSE idx

\* C1: whenever get_incident_details yields no incident for a supported event
\* (subtype code absent or zero, or job not found), the fetch loop raises no
\* error and goes on with the batch.
C1_NoIncidentTolerated ==
    (InFetch /\ incident.type = "dict" /\ IsNone(det)) => exc = NoExc

\* C2: an error result of a REST call made while enriching an event (job,
\* subclient, browse) never makes the fetch loop raise.
C2_RestErrorConfined ==
    (InFetch /\ \E c \in calls : c[3] = FALSE) => exc = NoExc

\* C3: the fetch loop returns at most the configured maximum of records:
\* container_count when the poll supplies one, 100 when it supplies none.
C3_AtMostConfiguredMax ==
    Returned => Len(out) <= ConfiguredMax

\* C4: every events query of a poll that found a stored watermark uses that
\* watermark as fromTime.
C4_FromTimeIsWatermark ==
    (pc # "idle" /\ ~IsNone(state)) =>
        \A i \in 1..Len(queries) : queries[i].fromTime = state

\* C5: finalize after a poll that ended with an error leaves the persisted
\* watermark as it was.
C5_FailedPollKeepsWatermark ==
    [][(PollEnded /\ status = APP_ERROR) => persisted' = persisted]_vars

\* C6: a poll one of whose events queries failed ends with error status.
C6_FailedQueryReported ==
    (PollEnded /\ \E i \in 1..Len(queries) : ~queries[i].ok) => status = APP_ERROR

\* C7: a poll issues exactly two events queries, the first for critical
\* severity only, the second for major severity only, none for minor.
C7_TwoSeverityQueries ==
    PollEnded =>
        /\ Len(queries) = 2
        /\ queries[1].showCritical = "true" /\ queries[1].showMajor = "false"
        /\ queries[2].showMajor = "true" /\ queries[2].showCritical = "false"
        /\ \A i \in 1..Len(queries) : queries[i].showMinor = "false"

\* C8 as stated: after a poll that succeeded, a qualifying event returned by
\* both queries has (at least) two records in out.
C8_TwoRecordsForDuplicate ==
    (PollEnded /\ status = APP_SUCCESS) =>
        \A e \in Pool :
            (Qualifies(e) /\ Occurs(e, ListOf(critical_events))
                          /\ Occurs(e, ListOf(major_events)))
            => RecordsOf(e) >= 2

\* C8 amended: the combined list is the first query's results followed by the
\* second's, the sorted list is a rearrangement of it that drops nothing, and
\* out holds one record for every qualifying occurrence the loop is done with,
\* duplicates included; a successful poll posts one container per record.
C8_NoDedup ==
    InFetch =>
        /\ [i \in 1..Len(combined) |-> combined[i].ev]
               = ListOf(critical_events) \o ListOf(major_events)
        /\ Len(events) = Len(combined)
        /\ \A j \in 1..Len(events) : combined[events[j].pos] = events[j]
        /\ \A j, k \in 1..Len(events) : events[j].pos = events[k].pos => j = k
        /\ LET done == SelectSeq(SubSeq(events, 1, Processed), QualifiesEntry)
           IN  [i \in 1..Len(out) |-> out[i].pos] = [i \in 1..Len(done) |-> done[i].pos]
        /\ (PollEnded /\ status = APP_SUCCESS) => container_reqs = Len(out)

\* a poll succeeded with two records of one event that both queries returned
C8_Witness ==
    /\ PollEnded /\ status = APP_SUCCESS
    /\ \E i, j \in 1..Len(out) :
         /\ i < j
         /\ out[i].event_id = out[j].event_id
         /\ out[i].pos <= Len(ListOf(critical_events))
         /\ out[j].pos > Len(ListOf(critical_events))

\* C9: every record comes from an event with code "14:337", and no job,
\* subclient or browse request is issued for an event with another code.
C9_OnlySupportedCodes ==
    /\ \A i \in 1..Len(out) : combined[out[i].pos].ev.eventCodeString = "14:337"
    /\ \A c \in calls : events[c[2]].ev.eventCodeString = "14:337"
    /\ SUPPORTED_EVENT_CODES = {"14:337"}

\* the loop went past an event with another code and the poll delivered a record
C9_Witness ==
    /\ PollEnded /\ status = APP_SUCCESS
    /\ Len(out) > 0
    /\ \E j \in 1..Len(events) : events[j].ev.eventCodeString # "14:337"

\* C10: the records are in non-decreasing order of event time, and records of
\* equal time are in the order of the combined list.
C10_OrderedByTime ==
    \A i, j \in 1..Len(out) :
        i < j => /\ out[i].timeSource <= out[j].timeSource
                 /\ out[i].timeSource = out[j].timeSource => out[i].pos < out[j].pos

\* the queries returned a later event before an earlier one, and both are in out
C10_Witness ==
    /\ Returned
    /\ \E i, j \in 1..Len(out) : i < j /\ out[i].pos > out[j].pos

\* C11: every record of out has category File Type or Threat Analysis and so
\* severity high; a File Activity alert gets its full details record, with
\* severity medium, but that record is not appended to out, and the publisher
\* issues requests for the records of out only.
C11_OnlyFileTypeOrThreat ==
    /\ \A i \in 1..Len(out) :
         /\ out[i].anomaly_sub_type \in {ANOMALY_TYPE_2, ANOMALY_TYPE_3}
         /\ out[i].severity = SEVERITY_HIGH
    /\ (InFetch /\ det.type = "dict" /\ det.anomaly_sub_type = ANOMALY_TYPE_1) =>
         /\ det.severity = SEVERITY_MEDIUM
         /\ \A i \in 1..Len(out) : out[i].pos # det.pos
    /\ container_reqs <= Len(out)

\* a poll succeeded that assembled the record of a File Activity alert, with
\* its scanned folders, and delivered only the record of another alert
C11_Witness ==
    /\ PollEnded /\ status = APP_SUCCESS
    /\ det.type = "dict" /\ det.anomaly_sub_type = ANOMALY_TYPE_1
    /\ det.scanned_folder_list # <<>>
    /\ Len(out) = 1 /\ container_reqs = 1
    /\ Len(events) = 2

\* the job lookup of the current event was answered with a record count that
\* is not above zero
JobCountNotPositive ==
    /\ InFetch
    /\ job_response.type = "RetVal"
    /\ ~IsNone(job_response.response)
    /\ job_response.response.totalRecordsWithoutPaging <= 0

\* C12: when the reply to the job lookup has totalRecordsWithoutPaging <= 0,
\* get_job_details and get_incident_details return None and raise nothing
\* themselves, and no subclient or browse request is issued for that event.
C12_JobNotFoundNoIncident ==
    JobCountNotPositive =>
        /\ IsNone(det)
        /\ exc_in \in {NoExc, "_fetch_incidents"}
        /\ job_response.idx = idx
        /\ \A c \in calls : c[2] = idx => c[1] = "Job"

\* the job lookup of a File Type alert was answered with a count below zero
C12_Witness ==
    /\ JobCountNotPositive
    /\ job_response.response.totalRecordsWithoutPaging < 0
    /\ IsNone(det)
    /\ events[idx].ev.description.AnomalyType = "2"

\* the job of an event was found and its subclient id is zero or None
JobSubclientFalsy ==
    /\ InFetch
    /\ job_response.type = "RetVal"
    /\ ~IsNone(job_response.response)
    /\ job_response.response.totalRecordsWithoutPaging > 0
    /\ LET subclient_id == subclient_id_of(job_response.response)
       IN  IsNone(subclient_id) \/ subclient_id.val = 0

\* C13: whenever the subclient id of the resolved job is zero or missing from
\* the job details, neither a browse nor a subclient request is issued for
\* the event, and its record has empty files_list and scanned_folder_list.
C13_NoSubclientNoFiles ==
    JobSubclientFalsy =>
        /\ \A c \in calls : c[2] = job_response.idx => c[1] = "Job"
        /\ (det.type = "dict" /\ det.pos = events[job_response.idx].pos) =>
               det.files_list = <<>> /\ det.scanned_folder_list = <<>>

\* the display paths of the rows of the browse responses that are not errors
RECURSIVE PathsOf(_)
PathsOf(browse_responses) ==
    IF browse_responses = <<>> THEN <<>>
    ELSE LET r == Head(browse_responses)
         IN  (IF r.respType = 0
              THEN [i \in 1..Len(r.dataResultSet) |-> r.dataResultSet[i].displayPath]
              ELSE <<>>) \o PathsOf(Tail(browse_responses))

\* the job of a File Type or Threat Analysis alert was found with a subclient
\* id that is not zero, and its browse and subclient requests were answered
FilesFetched ==
    /\ InFetch
    /\ job_response.type = "RetVal"
    /\ ~IsNone(job_response.response)
    /\ job_response.response.totalRecordsWithoutPaging > 0
    /\ LET subclient_id == subclient_id_of(job_response.response)
       IN  ~IsNone(subclient_id) /\ subclient_id.val # 0
    /\ events[job_response.idx].ev.description.AnomalyType \in {"2", "3"}
    /\ <<"DoBrowse", job_response.idx, TRUE>> \in calls
    /\ <<"Subclient", job_response.idx, TRUE>> \in calls

\* C14: for a File Type or Threat Analysis alert whose job has a subclient id
\* other than zero, get_incident_details raises nothing and files_list is
\* the flat list of the full paths of the browse rows that are not errors,
\* in their order.
C14_FlatFullPaths ==
    FilesFetched =>
        /\ exc = NoExc
        /\ det.type = "dict"
        /\ det.pos = events[job_response.idx].pos
        /\ det.files_list = PathsOf(BrowseResponses(det.job_id))

\* the helper function named f has returned
Applied(f) == fn_in.type = f /\ fn_out # NotApplied

\* C15: _process_response classifies by the first test that matches: with
\* "json" in the Content-Type, success with the parsed body exactly when
\* 200 <= status < 399 (and the body parses), error otherwise; else with
\* "html", error for every status; else with an empty body, success with an
\* empty object exactly when the status is 200; else error.  In every case
\* the result is a pair of a success flag and a body or None.
C15_ResponseClassified ==
    Applied("_process_response") =>
        /\ fn_out.type = "RetVal"
        /\ fn_out.ret_val \in BOOLEAN
        /\ IF "json" \in fn_in.content_type
           THEN /\ fn_out.ret_val <=>
                     (fn_in.json_ok /\ fn_in.status_code \in 200..398)
                /\ fn_out.response =
                     IF fn_out.ret_val THEN json(fn_in) ELSE PyNone
           ELSE IF "html" \in fn_in.content_type
           THEN fn_out.ret_val = FALSE /\ fn_out.response = PyNone
           ELSE IF fn_in.text = ""
           THEN /\ fn_out.ret_val <=> fn_in.status_code = 200
                /\ fn_out.response =
                     IF fn_out.ret_val THEN PyEmptyDict ELSE PyNone
           ELSE fn_out.ret_val = FALSE /\ fn_out.response = PyNone

\* a remediation action has returned
RemediationEnded ==
    pc = "finalize" /\ action_id \in {"disable_user", "disable_data_aging", "disable_idp"}

\* the REST call failed: an error result, or a reply with an error code
CallFailed(c) == ~c.ok \/ c.errorCode # 0

\* C16: in disable_user, disable_data_aging and disable_idp the first REST
\* call that returns an error result or a reply with a non-zero error code
\* ends the action with error status, no further REST call being made; the
\* action reports success only when no call failed.
C16_FirstFailureAborts ==
    RemediationEnded =>
        \A i \in 1..Len(rest_log) :
            CallFailed(rest_log[i]) => status = APP_ERROR /\ i = Len(rest_log)

\* C17: the publisher issues one container request for every incident it is
\* handed and at most one artifact request per incident, and an artifact
\* request is made only for a container that was created, never with the
\* failure value of _add_container as container id.
C17_ArtifactAfterContainer ==
    /\ artifact_reqs <= container_reqs
    /\ container_reqs <= Len(out)
    /\ (PollEnded /\ status = APP_SUCCESS) => container_reqs = Len(out)
    /\ ~artifact_with_false

\* C18: get_backup_anomaly followed by define_severity maps 1 to (File
\* Activity, medium), 2 to (File Type, high), 3 to (Threat Analysis, high),
\* and 0 and every other code to (Undefined, no severity).
C18_ClassifierTable ==
    Applied("get_backup_anomaly") =>
        <<fn_out.anomaly_sub_type, fn_out.severity>> =
            CASE fn_in.anomaly_id = 1 -> <<"File Activity", "medium">>
              [] fn_in.anomaly_id = 2 -> <<"File Type", "high">>
              [] fn_in.anomaly_id = 3 -> <<"Threat Analysis", "high">>
              [] OTHER -> <<"Undefined", "None">>

\* a code outside the table was classified
C18_Witness ==
    /\ Applied("get_backup_anomaly")
    /\ fn_in.anomaly_id > 3
    /\ fn_out.anomaly_sub_type = ANOMALY_TYPE_UNDEFINED

\* t is c without its leading and trailing white space
IsTrimmed(t, c) ==
    \E a \in 1..(Len(c) + 1) : \E b \in 0..Len(c) :
        /\ t = SubSeq(c, a, b)
        /\ \A i \in 1..Len(c) : (i < a \/ i > b) => c[i] = " "
        /\ t # <<>> => (t[1] # " " /\ t[Len(t)] # " ")

\* C19: extract_from_regex returns the trimmed capture of the first pattern
\* of the list that matches, an empty capture included (later patterns are
\* then not tried), and the default value as it is when no pattern matches.
C19_FirstMatchOrDefault ==
    Applied("extract_from_regex") =>
        LET ms == fn_in.matches
            hits == {i \in 1..Len(ms) : ms[i] # SearchNone}
        IN  IF hits = {}
            THEN fn_out = fn_in.default_value
            ELSE \E i \in hits :
                   /\ \A j \in hits : i <= j
                   /\ fn_out.type = "str"
                   /\ IsTrimmed(fn_out.val, ms[i].groups[1])

\* the first pattern captured white space only and the second a text: the
\* result is the empty string
C19_Witness ==
    /\ Applied("extract_from_regex")
    /\ Len(fn_in.matches) = 2
    /\ fn_in.matches[1] = Match(<<" ">>)
    /\ fn_in.matches[2] = Match(<<"x">>)
    /\ fn_out = PyStr(<<>>)

\* the five counters of a record and the labels of their counts in a message
Counters ==
    {<<"affected_files_count", "SuspiciousFileCount">>,
     <<"modified_files_count", "ModifiedFileCount">>,
     <<"deleted_files_count", "DeletedFileCount">>,
     <<"renamed_files_count", "RenamedFileCount">>,
     <<"created_files_count", "CreatedFileCount">>}

\* the text is a count above zero: digits, not all of them zeros
IsPositiveCount(chars) ==
    /\ chars # <<>>
    /\ \A i \in 1..Len(chars) :
         chars[i] \in {"0", "1", "2", "3", "4", "5", "6", "7", "8", "9"}
    /\ \E i \in 1..Len(chars) : chars[i] # "0"

\* the counters of record d are as C20 says, given the message it came from
CountersAsClaimed(d, message) ==
    \A c \in Counters :
        /\ d[c[1]] # PyStr(<<"0">>)
        /\ d[c[1]] # PyInt(0)
        /\ c[2] \notin DOMAIN message => d[c[1]] = PyNone
        /\ c[2] \in DOMAIN message =>
              /\ strip(message[c[2]]) = <<"0">> => d[c[1]] = PyNone
              /\ IsPositiveCount(strip(message[c[2]])) =>
                     d[c[1]] = PyStr(strip(message[c[2]]))

\* C20: each of the five file counters of an assembled incident is None when
\* the extracted count is "0" or the message has no such field, never a zero;
\* a count above zero is carried through as extracted.
C20_ZeroCountsAbsent ==
    /\ \A i \in 1..Len(out) :
         CountersAsClaimed(out[i], combined[out[i].pos].ev.description)
    /\ (InFetch /\ det.type = "dict") =>
         CountersAsClaimed(det, combined[det.pos].ev.description)

\* a delivered record with a count of 12, a count of "0" turned into None and
\* a count whose field the message does not have
C20_Witness ==
    /\ PollEnded /\ status = APP_SUCCESS
    /\ \E i \in 1..Len(out) :
         /\ out[i].event_id = 8
         /\ out[i].affected_files_count = PyStr(<<"1", "2">>)
         /\ out[i].modified_files_count = PyNone
         /\ out[i].deleted_files_count = PyNone
         /\ out[i].renamed_files_count = PyStr(<<"7">>)

\* the text between the first <html> and the first </html> after it, when
\* the message has such a block
HasHtmlBlock(msg) ==
    \E h, e \in 1..Len(msg) : h < e /\ msg[h] = "<html>" /\ msg[e] = "</html>"
HasPiece(msg, piece) == \E i \in 1..Len(msg) : msg[i] = piece
InnerText(msg) ==
    LET h == CHOOSE i \in 1..Len(msg) :
                 msg[i] = "<html>" /\ \A j \in 1..(i - 1) : msg[j] # "<html>"
        e == CHOOSE i \in (h + 1)..Len(msg) :
                 msg[i] = "</html>" /\ \A j \in (h + 1)..(i - 1) : msg[j] # "</html>"
    IN  SubSeq(msg, h + 1, e - 1)

\* C21: for a message with an <html>..</html> block whose inner text holds
\* both "Detected " and " Please click ", format_alert_description returns
\* the part that starts at "Detected " and ends just before " Please click ";
\* for a message without an html block, or whose block holds neither pair of
\* markers, it returns the message unchanged.
C21_DetectedToPleaseClick ==
    Applied("format_alert_description") =>
        LET msg == fn_in.msg
        IN  IF ~HasHtmlBlock(msg) THEN fn_out = PyStr(msg)
            ELSE LET inner == InnerText(msg)
                 IN  IF HasPiece(inner, "Detected ") /\ HasPiece(inner, " Please click ")
                     THEN \E i, j \in 1..Len(inner) :
                            /\ i < j
                            /\ inner[i] = "Detected "
                            /\ inner[j] = " Please click "
                            /\ fn_out = PyStr(SubSeq(inner, i, j - 1))
                     ELSE (~(HasPiece(inner, "Possible ") /\ HasPiece(inner, "<span style=")))
                            => fn_out = PyStr(msg)

\* C22: the event time, the job start time and the job end time of a record
\* are the UTC wall-clock readings of their epoch values, whatever the UTC
\* offset of the machine (a wall-clock reading is kept as seconds, so the
\* UTC reading of an epoch value is that value).
C22_TimestampsInUtc ==
    \A i \in 1..Len(out) :
        /\ out[i].event_time = out[i].timeSource
        /\ out[i].job_start_time = JobTable(out[i].job_id).jobStartTime
        /\ out[i].job_end_time = JobTable(out[i].job_id).jobEndTime

\* the loop has reached a supported event whose message has no subtype code,
\* or the code "0"
NoSubtypeCode ==
    /\ InFetch
    /\ idx \in 1..Len(events)
    /\ incident.type = "dict"
    /\ incident.pos = events[idx].pos
    /\ events[idx].ev.description.AnomalyType \in {NoMatch, "0"}

\* C23: when the subtype code of an event's message is absent or "0",
\* get_incident_details returns None, raising nothing itself, and no job,
\* subclient or browse request is made for that event.
C23_NoSubtypeNoRequest ==
    NoSubtypeCode =>
        /\ IsNone(det)
        /\ exc_in \in {NoExc, "_fetch_incidents"}
        /\ \A c \in calls : c[2] # idx

\* an alert with AnomalyType:[0] came after an alert for which requests were
\* made, and no request was made for it
C23_Witness ==
    /\ NoSubtypeCode
    /\ events[idx].ev.description.AnomalyType = "0"
    /\ idx = 2
    /\ calls # {}

\* the job of a File Activity or Undefined alert was found, with a subclient
\* id that is not zero
NoBrowseCategory ==
    /\ InFetch
    /\ job_response.type = "RetVal"
    /\ ~IsNone(job_response.response)
    /\ job_response.response.totalRecordsWithoutPaging > 0
    /\ LET subclient_id == subclient_id_of(job_response.response)
       IN  ~IsNone(subclient_id) /\ subclient_id.val # 0
    /\ get_backup_anomaly(StrToInt(
           events[job_response.idx].ev.description.AnomalyType))
         \in {ANOMALY_TYPE_1, ANOMALY_TYPE_UNDEFINED}

\* C24: for an alert of category File Activity or Undefined the file list is
\* empty and no POST /DoBrowse is issued, while the job lookup is made and,
\* the subclient id not being zero, so is the subclient lookup.
C24_NoBrowseForOtherCategories ==
    NoBrowseCategory =>
        LET i == job_response.idx
        IN  /\ \A c \in calls : c[2] = i => c[1] # "DoBrowse"
            /\ \E c \in calls : c[2] = i /\ c[1] = "Job"
            /\ pc # "get_files_list" =>
                  /\ det.files_list = <<>>
                  /\ pc # "get_subclient_content_list" =>
                        \E c \in calls : c[2] = i /\ c[1] = "Subclient"

\* the record of an Undefined alert was assembled, with the folders of its
\* subclient and no files
C24_Witness ==
    /\ NoBrowseCategory
    /\ det.type = "dict"
    /\ det.anomaly_sub_type = ANOMALY_TYPE_UNDEFINED
    /\ det.files_list = <<>>
    /\ det.scanned_folder_list # <<>>
    /\ <<"Subclient", job_response.idx, TRUE>> \in calls

\* the rows an entry of browseResponses is to contribute
RowsOf(entry) ==
    IF "respType" \in DOMAIN entry /\ entry.respType = 0
       /\ "dataResultSet" \in DOMAIN entry
    THEN entry.dataResultSet ELSE <<>>

\* the number of rows the first k entries are to contribute
RECURSIVE RowsBefore(_, _)
RowsBefore(entries, k) ==
    IF k = 0 THEN 0 ELSE RowsBefore(entries, k - 1) + Len(RowsOf(entries[k]))

\* C25: the file list of get_files_list holds the dataResultSet rows of the
\* entries whose respType is 0, in order, and nothing else; an entry with
\* another respType, or none, contributes no file wherever it stands.
C25_OnlyRespTypeZero ==
    Applied("get_files_list") =>
        LET entries == fn_in.browse_responses
            files == fn_out.val
        IN  /\ Len(files) = RowsBefore(entries, Len(entries))
            /\ \A k \in 1..Len(entries) : \A r \in 1..Len(RowsOf(entries[k])) :
                   LET file == files[RowsBefore(entries, k - 1) + r]
                       row == RowsOf(entries[k])[r]
                   IN  /\ file.filename = row.displayName
                       /\ file.sizeinkb = row.size

\* an entry with respType 2 and rows stands before an entry with respType 0
\* and two rows: the list has the two rows of the second
C25_Witness ==
    /\ Applied("get_files_list")
    /\ Len(fn_in.browse_responses) = 2
    /\ fn_in.browse_responses[1] = [respType |-> 2, dataResultSet |-> <<RowA>>]
    /\ fn_in.browse_responses[2] = [respType |-> 0, dataResultSet |-> <<RowB, RowA>>]
    /\ Len(fn_out.val) = 2
    /\ fn_out.val[1].filename = "y.txt"

\* C26: an action other than a poll leaves the persisted last_run watermark
\* as it was loaded: finalize after disable_user, disable_data_aging or
\* disable_idp stores the value the state had at initialize.
C26_WatermarkKeptByOtherActions ==
    [][(pc = "finalize" /\ action_id # "on_poll") => persisted' = persisted]_vars

====
